---- MODULE Spec2Model ----
(***************************************************************************)
(* Discrete-event model of ManufacturingSystem                             *)
(* (Project 2-Manufacturing.cpp).                                          *)
(*                                                                         *)
(* Simulated time is a double in the source; every duration the program    *)
(* uses is a multiple of 0.25, so the model counts time in ticks of 0.25   *)
(* time units (2.0 -> 8, 0.75 -> 3, the 8-hour shift -> 32, 1000.0 ->      *)
(* 4000).  Interarrival samples are drawn from a finite set of ticks.      *)
(*                                                                         *)
(* std::map is a function whose DOMAIN is the set of keys; operator[]      *)
(* on a missing key inserts the key with value 0.                          *)
(* std::priority_queue is the binary heap built by push_heap / pop_heap    *)
(* over a vector, modelled as a sequence (index 1 is the top).             *)
(***************************************************************************)
EXTENDS Integers, Sequences, FiniteSets, TLC

\* ------------------------------------------------------------------ bounds
MaxCap == 1
MaxArrivals == 3
MaxScheduled == 5
MaxTime == 2
Far == 8000

\* interarrival samples (ticks): 1.0, 7.0 and 8.0 time units
Samples == {4, 28, 32}
\* run bounds handed to runSimulation (ticks): 2.0, 12.5, 24.0 and 1000.0
RunTimes == {8, 50, 96, 4000}

\* ------------------------------------------------- configuration (lines 47-73)
shiftLength == 32
BreakdownDelay == 20
processingTimes ==
  [ProductA |-> <<8, 6, 4, 4>>, ProductB |-> <<12, 8, 6, 6>>]
machineSetupTimes ==
  [ProductA |-> 2, ProductB |-> 3]
ProductNames == {"ProductA", "ProductB"}
StageNames == {"machining", "assembly", "quality_control", "packaging"}

getStageName(stageIndex) ==
  CASE stageIndex = 0 -> "machining"
    [] stageIndex = 1 -> "assembly"
    [] stageIndex = 2 -> "quality_control"
    [] stageIndex = 3 -> "packaging"
    [] OTHER -> "unknown"

\* the capacity maps a caller installs with setResources: those of main()
\* (keys machines/operators) and maps keyed by the stage names
ScenarioConfigs ==
  { [machines |-> 10, operators |-> 5],
    [machines |-> 8, operators |-> 6],
    [machines |-> 12, operators |-> 7] }
StageConfigs == [StageNames -> 0..MaxCap]
Configs == ScenarioConfigs \cup StageConfigs

\* ------------------------------------------------------------ std::map
Get(m, k) == IF k \in DOMAIN m THEN m[k] ELSE 0
Put(m, k, v) == [x \in (DOMAIN m) \cup {k} |-> IF x = k THEN v ELSE m[x]]

\* ------------------------------------------------------------ events
NoProduct == [type |-> "none", intermediateStage |-> 0, id |-> 0]
NoEvent ==
  [time |-> 0, type |-> "none", act |-> "none", product |-> NoProduct,
   processTime |-> 0, stage |-> "none", seq |-> 0]
MkEvent(time, type, act, product, processTime, stage, seq) ==
  [time |-> time, type |-> type, act |-> act, product |-> product,
   processTime |-> processTime, stage |-> stage, seq |-> seq]

\* Event::operator> : only the time is compared
EventGreater(a, b) == a.time > b.time

\* ------------------------------------------------- std::priority_queue
RECURSIVE PushHeapFrom(_, _, _)
PushHeapFrom(c, hole, v) ==
  IF hole > 1 /\ EventGreater(c[hole \div 2], v)
    THEN PushHeapFrom([c EXCEPT ![hole] = c[hole \div 2]], hole \div 2, v)
    ELSE [c EXCEPT ![hole] = v]

\* mutant: the new element stays at the back of the vector
QueuePushNoSift(c, e) == Append(c, e)

\* push: c.push_back(e); push_heap(c.begin(), c.end(), greater)
QueuePush(c, e) == PushHeapFrom(Append(c, e), Len(c) + 1, e)

\* __adjust_heap: the hole at the top moves down to a leaf, taking the
\* right child unless the right child is greater than the left one; the
\* last element is then pushed up from the hole.  len is the heap length
\* after the pop; 1-based, the children of i are 2i and 2i+1.
RECURSIVE AdjustHeap(_, _, _, _)
AdjustHeap(c, hole, len, v) ==
  IF 2 * hole + 1 <= len
    THEN LET child == IF EventGreater(c[2 * hole + 1], c[2 * hole])
                        THEN 2 * hole ELSE 2 * hole + 1
         IN AdjustHeap([c EXCEPT ![hole] = c[child]], child, len, v)
    ELSE IF 2 * hole = len
      THEN PushHeapFrom([c EXCEPT ![hole] = c[2 * hole]], 2 * hole, v)
      ELSE PushHeapFrom(c, hole, v)

\* pop: pop_heap(c.begin(), c.end(), greater); c.pop_back()
QueuePop(c) ==
  IF Len(c) <= 1 THEN << >>
  ELSE AdjustHeap(SubSeq(c, 1, Len(c) - 1), 1, Len(c) - 1, c[Len(c)])

QueueTop(c) == c[1]

\* ------------------------------------------------------------ state
VARIABLES
  eventQueue, resources, availableResources,
  resourceUsageTime, resourceWaitingTime,
  rawMaterialCount, finishedProducts, currentTime,
  finishedProductsPerType, productQueue,
  runTime, pc,
  nextSeq, last, shiftCount, finishedLog, stalledLog

vars ==
  <<eventQueue, resources, availableResources,
    resourceUsageTime, resourceWaitingTime,
    rawMaterialCount, finishedProducts, currentTime,
    finishedProductsPerType, productQueue,
    runTime, pc, nextSeq, last, shiftCount, finishedLog, stalledLog>>

\* nextSeq numbers the scheduleEvent calls; last is the latest queue
\* operation; shiftCount counts executed shift changes; finishedLog lists
\* the units counted as finished and stalledLog the units whose acquisition
\* failed.  These five record history only.

\* the part of the state the handlers thread through their calls
Here ==
  [q |-> eventQueue, avail |-> availableResources,
   usage |-> resourceUsageTime, waiting |-> resourceWaitingTime,
   seq |-> nextSeq, finished |-> finishedProducts,
   perType |-> finishedProductsPerType, log |-> finishedLog,
   stalled |-> stalledLog]

Popped == [Here EXCEPT !.q = QueuePop(eventQueue)]

\* scheduleEvent (lines 76-78): no check of time against currentTime
scheduleEvent(S, time, type, act, product, processTime, stage) ==
  [S EXCEPT
     !.q = QueuePush(S.q, MkEvent(time, type, act, product,
                                  processTime, stage, S.seq)),
     !.seq = S.seq + 1]

\* mutant: the resource is taken without looking at its available count
handleNextStageNoCheck(S, product, now) ==
  LET stage == getStageName(product.intermediateStage)
      processTime == processingTimes[product.type][product.intermediateStage + 1]
      setupTime == IF product.intermediateStage = 0
                     THEN machineSetupTimes[product.type] ELSE 0
      T == scheduleEvent(S, now + setupTime, "setup", "setup",
                         product, processTime, stage)
  IN [T EXCEPT
        !.avail = Put(S.avail, stage, Get(S.avail, stage) - 1),
        !.usage = Put(S.usage, stage, Get(S.usage, stage) + setupTime)]

\* mutant: the setup time is applied at every stage
handleNextStageAlwaysSetup(S, product, now) ==
  IF product.intermediateStage < Len(processingTimes[product.type])
    THEN
      LET stage == getStageName(product.intermediateStage)
          processTime ==
            processingTimes[product.type][product.intermediateStage + 1]
      IN IF Get(S.avail, stage) > 0
           THEN
             LET setupTime == machineSetupTimes[product.type]
                 T == scheduleEvent(S, now + setupTime, "setup", "setup",
                                    product, processTime, stage)
             IN [T EXCEPT
                   !.avail = Put(S.avail, stage, Get(S.avail, stage) - 1),
                   !.usage = Put(S.usage, stage,
                                 Get(S.usage, stage) + setupTime)]
           ELSE
             [S EXCEPT
                !.avail = Put(S.avail, stage, Get(S.avail, stage)),
                !.waiting = Put(S.waiting, stage,
                                Get(S.waiting, stage) + processTime),
                !.stalled = Append(@, product)]
    ELSE S

\* handleNextStage (lines 110-128)
handleNextStage(S, product, now) ==
  IF product.intermediateStage < Len(processingTimes[product.type])
    THEN
      LET stage == getStageName(product.intermediateStage)
          processTime ==
            processingTimes[product.type][product.intermediateStage + 1]
      IN IF Get(S.avail, stage) > 0
           THEN
             LET setupTime == IF product.intermediateStage = 0
                                THEN machineSetupTimes[product.type] ELSE 0
                 T == scheduleEvent(S, now + setupTime, "setup", "setup",
                                    product, processTime, stage)
             IN [T EXCEPT
                   !.avail = Put(S.avail, stage, Get(S.avail, stage) - 1),
                   !.usage = Put(S.usage, stage,
                                 Get(S.usage, stage) + setupTime)]
           ELSE
             [S EXCEPT
                !.avail = Put(S.avail, stage, Get(S.avail, stage)),
                !.waiting = Put(S.waiting, stage,
                                Get(S.waiting, stage) + processTime),
                !.stalled = Append(@, product)]
    ELSE S

\* mutant: the processing time is booked twice
setupDoneTwice(S, product, processTime, stage, now) ==
  LET T == scheduleEvent(S, now + processTime, stage, "complete",
                         product, 0, stage)
  IN [T EXCEPT
        !.usage = Put(S.usage, stage, Get(S.usage, stage) + 2 * processTime)]

\* the action of a "setup" event (lines 118-121)
setupDone(S, product, processTime, stage, now) ==
  LET T == scheduleEvent(S, now + processTime, stage, "complete",
                         product, 0, stage)
  IN [T EXCEPT !.usage = Put(S.usage, stage, Get(S.usage, stage) + processTime)]

\* mutant: the per-type counter is not incremented
completeStageNoPerType(S, product, now) ==
  LET stage == getStageName(product.intermediateStage)
      R == [S EXCEPT !.avail = Put(S.avail, stage, Get(S.avail, stage) + 1)]
      next == [product EXCEPT !.intermediateStage = @ + 1]
  IN IF next.intermediateStage >= Len(processingTimes[next.type])
       THEN [R EXCEPT !.finished = @ + 1, !.log = Append(@, next)]
       ELSE handleNextStage(R, next, now)

\* mutant: the finished test is off by one
completeStageOffByOne(S, product, now) ==
  LET stage == getStageName(product.intermediateStage)
      R == [S EXCEPT !.avail = Put(S.avail, stage, Get(S.avail, stage) + 1)]
      next == [product EXCEPT !.intermediateStage = @ + 1]
  IN IF next.intermediateStage > Len(processingTimes[next.type])
       THEN [R EXCEPT
               !.finished = @ + 1,
               !.perType = Put(@, next.type, Get(@, next.type) + 1),
               !.log = Append(@, next)]
       ELSE handleNextStage(R, next, now)

\* completeStage (lines 130-142)
completeStage(S, product, now) ==
  LET stage == getStageName(product.intermediateStage)
      R == [S EXCEPT !.avail = Put(S.avail, stage, Get(S.avail, stage) + 1)]
      next == [product EXCEPT !.intermediateStage = @ + 1]
  IN IF next.intermediateStage >= Len(processingTimes[next.type])
       THEN [R EXCEPT
               !.finished = @ + 1,
               !.perType = Put(@, next.type, Get(@, next.type) + 1),
               !.log = Append(@, next)]
       ELSE handleNextStage(R, next, now)

\* writes the threaded part of the state back
Commit(S) ==
  /\ eventQueue' = S.q
  /\ availableResources' = S.avail
  /\ resourceUsageTime' = S.usage
  /\ resourceWaitingTime' = S.waiting
  /\ nextSeq' = S.seq
  /\ finishedProducts' = S.finished
  /\ finishedProductsPerType' = S.perType
  /\ finishedLog' = S.log
  /\ stalledLog' = S.stalled

\* ------------------------------------------------------------ Init
\* the state after the constructor (lines 50-74)
Init ==
  /\ eventQueue = << >>
  /\ resources = [machines |-> 10, operators |-> 5]
  /\ availableResources = [machines |-> 10, operators |-> 5]
  /\ resourceUsageTime = [machines |-> 0, operators |-> 0]
  /\ resourceWaitingTime = [machines |-> 0, operators |-> 0]
  /\ rawMaterialCount = 0
  /\ finishedProducts = 0
  /\ currentTime = 0
  /\ finishedProductsPerType = [ProductA |-> 0, ProductB |-> 0]
  /\ productQueue = << >>
  /\ runTime = 0
  /\ pc = "constructed"
  /\ nextSeq = 1
  /\ last = [op |-> "none", ev |-> NoEvent]
  /\ shiftCount = 0
  /\ finishedLog = << >>
  /\ stalledLog = << >>

\* ------------------------------------------------------------ actions
\* setResources (lines 209-212), as runScenario calls it before the run
setResources(newResources) ==
  /\ pc = "constructed"
  /\ resources' = newResources
  /\ availableResources' = newResources
  /\ pc' = "configured"
  /\ UNCHANGED <<eventQueue, resourceUsageTime, resourceWaitingTime,
                 rawMaterialCount, finishedProducts, currentTime,
                 finishedProductsPerType, productQueue, runTime,
                 nextSeq, last, shiftCount, finishedLog,
                 stalledLog>>

\* an interarrival sample: after MaxArrivals arrivals the generator only
\* yields a sample beyond every run bound
NextSamples(count) ==
  IF count < MaxArrivals THEN Samples \cup {Far} ELSE {Far}

\* runSimulation, lines 80-85: the two seed events
runSimulation(bound, sample) ==
  /\ pc \in {"constructed", "configured"}
  /\ LET S1 == scheduleEvent(Here, sample, "raw_material_arrival", "arrival",
                             [NoProduct EXCEPT !.type = "ProductA"], 0, "none")
         S2 == scheduleEvent(S1, shiftLength, "shift_change", "shift",
                             NoProduct, 0, "none")
     IN Commit(S2)
  /\ runTime' = bound
  /\ pc' = "running"
  /\ UNCHANGED <<resources, rawMaterialCount, currentTime, productQueue,
                 last, shiftCount>>

\* mutant: the bound itself still admits another iteration
LoopConditionInclusive == eventQueue # << >> /\ currentTime <= runTime

\* the loop condition of line 87
LoopCondition == eventQueue # << >> /\ currentTime < runTime

\* lines 88-90 of one loop iteration whose event has the given action
Iterate(act) ==
  /\ pc = "running"
  /\ LoopCondition
  /\ QueueTop(eventQueue).act = act
  /\ currentTime' = QueueTop(eventQueue).time
  /\ last' = [op |-> "pop", ev |-> QueueTop(eventQueue)]
  /\ UNCHANGED <<resources, runTime, pc>>

\* mutant: the next arrival is not scheduled
handleRawMaterialArrivalOnce(sample) ==
  /\ Iterate("arrival")
  /\ LET ev == QueueTop(eventQueue)
         now == ev.time
         newProduct == [type |-> ev.product.type, intermediateStage |-> 0,
                        id |-> rawMaterialCount + 1]
     IN /\ rawMaterialCount' = rawMaterialCount + 1
        /\ productQueue' = Append(productQueue, newProduct)
        /\ Commit(handleNextStage(Popped, newProduct, now))
  /\ UNCHANGED shiftCount

\* handleRawMaterialArrival (lines 98-108)
handleRawMaterialArrival(sample) ==
  /\ Iterate("arrival")
  /\ LET ev == QueueTop(eventQueue)
         now == ev.time
         productType == ev.product.type
         newProduct == [type |-> productType, intermediateStage |-> 0,
                        id |-> rawMaterialCount + 1]
         S1 == scheduleEvent(Popped, now + sample, "raw_material_arrival",
                             "arrival", ev.product, 0, "none")
     IN /\ rawMaterialCount' = rawMaterialCount + 1
        /\ productQueue' = Append(productQueue, newProduct)
        /\ Commit(handleNextStage(S1, newProduct, now))
  /\ UNCHANGED shiftCount

\* a "setup" event fires (lines 118-121)
handleSetup ==
  /\ Iterate("setup")
  /\ LET ev == QueueTop(eventQueue)
     IN Commit(setupDone(Popped, ev.product, ev.processTime, ev.stage, ev.time))
  /\ UNCHANGED <<rawMaterialCount, productQueue, shiftCount>>

\* a stage-completion event fires (line 120, lines 130-142)
handleStageDone ==
  /\ Iterate("complete")
  /\ LET ev == QueueTop(eventQueue)
     IN Commit(completeStage(Popped, ev.product, ev.time))
  /\ UNCHANGED <<rawMaterialCount, productQueue, shiftCount>>

\* mutant: the next shift change is scheduled one tick late
handleShiftChangeLate ==
  /\ Iterate("shift")
  /\ LET ev == QueueTop(eventQueue)
         S1 == [Popped EXCEPT !.avail = resources]
     IN Commit(scheduleEvent(S1, ev.time + shiftLength + 1, "shift_change",
                             "shift", NoProduct, 0, "none"))
  /\ shiftCount' = shiftCount + 1
  /\ UNCHANGED <<rawMaterialCount, productQueue>>

\* mutant: the available counts are not reset
handleShiftChangeNoReset ==
  /\ Iterate("shift")
  /\ LET ev == QueueTop(eventQueue)
     IN Commit(scheduleEvent(Popped, ev.time + shiftLength, "shift_change",
                             "shift", NoProduct, 0, "none"))
  /\ shiftCount' = shiftCount + 1
  /\ UNCHANGED <<rawMaterialCount, productQueue>>

\* handleShiftChange (lines 164-172)
handleShiftChange ==
  /\ Iterate("shift")
  /\ LET ev == QueueTop(eventQueue)
         S1 == [Popped EXCEPT !.avail = resources]
     IN Commit(scheduleEvent(S1, ev.time + shiftLength, "shift_change",
                             "shift", NoProduct, 0, "none"))
  /\ shiftCount' = shiftCount + 1
  /\ UNCHANGED <<rawMaterialCount, productQueue>>

\* mutant: the loop is only left when the queue is empty
finishRunOnEmpty ==
  /\ pc = "running"
  /\ eventQueue = << >>
  /\ pc' = "done"
  /\ UNCHANGED <<eventQueue, resources, availableResources,
                 resourceUsageTime, resourceWaitingTime,
                 rawMaterialCount, finishedProducts, currentTime,
                 finishedProductsPerType, productQueue, runTime,
                 nextSeq, last, shiftCount, finishedLog,
                 stalledLog>>

\* the loop exits and the statistics are logged (lines 87, 95)
finishRun ==
  /\ pc = "running"
  /\ ~LoopCondition
  /\ pc' = "done"
  /\ UNCHANGED <<eventQueue, resources, availableResources,
                 resourceUsageTime, resourceWaitingTime,
                 rawMaterialCount, finishedProducts, currentTime,
                 finishedProductsPerType, productQueue, runTime,
                 nextSeq, last, shiftCount, finishedLog,
                 stalledLog>>

Next ==
  \/ \E c \in Configs : setResources(c)
  \/ \E b \in RunTimes : \E s \in NextSamples(0) : runSimulation(b, s)
  \/ \E s \in NextSamples(rawMaterialCount + 1) : handleRawMaterialArrival(s)
  \/ handleSetup
  \/ handleStageDone
  \/ handleShiftChange
  \/ finishRun

Spec == Init /\ [][Next]_vars

\* the program is one sequential thread: whenever a step is possible (the
\* caller's next call, the next loop iteration, the loop exit) it is taken
\* (run bounds up to 24.0 and capacity maps with one capacity for all
\* stages keep the behaviours short and few)
LiveRunTimes == {b \in RunTimes : b <= 3 * shiftLength}
LiveConfigs ==
  ScenarioConfigs \cup {[r \in StageNames |-> k] : k \in 0..MaxCap}
NextLive ==
  \/ \E c \in LiveConfigs : setResources(c)
  \/ \E b \in LiveRunTimes : \E s \in NextSamples(0) : runSimulation(b, s)
  \/ \E s \in NextSamples(rawMaterialCount + 1) : handleRawMaterialArrival(s)
  \/ handleSetup
  \/ handleStageDone
  \/ handleShiftChange
  \/ finishRun

SpecLive == Init /\ [][NextLive]_vars /\ WF_vars(NextLive)

\* ------------------------------------------- a caller wiring in breakdowns
\* the resources a caller reports a breakdown on
BreakdownResources == {"machining", "machines"}
MaxBreakdowns == 1

\* handleBreakdown (lines 154-157), called by an external caller before the
\* run: nothing in the program calls it
handleBreakdown(resource) ==
  /\ pc \in {"constructed", "configured"}
  /\ Cardinality({i \in 1..Len(eventQueue) :
                    eventQueue[i].act = "maintenance"}) < MaxBreakdowns
  /\ Commit(scheduleEvent(Here, currentTime + BreakdownDelay, "maintenance",
                          "maintenance", NoProduct, 0, resource))
  /\ UNCHANGED <<resources, rawMaterialCount, currentTime, productQueue,
                 runTime, pc, last, shiftCount>>

\* handleMaintenance (lines 159-162)
handleMaintenance ==
  /\ Iterate("maintenance")
  /\ LET ev == QueueTop(eventQueue)
     IN Commit([Popped EXCEPT
                  !.avail = Put(@, ev.stage, Get(@, ev.stage) + 1)])
  /\ UNCHANGED <<rawMaterialCount, productQueue, shiftCount>>

NextB ==
  \/ Next
  \/ \E r \in BreakdownResources : handleBreakdown(r)
  \/ handleMaintenance

SpecB == Init /\ [][NextB]_vars

\* ------------------------------------------------ the event queue on its own
\* A caller schedules events whose action does nothing, at any time in
\* 0..MaxTime, and the driver pops them (lines 88-90).
callScheduleEvent(time) ==
  /\ pc = "constructed"
  /\ nextSeq <= MaxScheduled
  /\ eventQueue' = QueuePush(eventQueue,
                     MkEvent(time, "external", "external", NoProduct,
                             0, "none", nextSeq))
  /\ nextSeq' = nextSeq + 1
  /\ last' = [op |-> "scheduleEvent",
              ev |-> MkEvent(time, "external", "external", NoProduct,
                             0, "none", nextSeq)]
  /\ UNCHANGED <<resources, availableResources, resourceUsageTime,
                 resourceWaitingTime, rawMaterialCount, finishedProducts,
                 currentTime, finishedProductsPerType, productQueue,
                 runTime, pc, shiftCount, finishedLog,
                 stalledLog>>

popEvent ==
  /\ pc = "constructed"
  /\ eventQueue # << >>
  /\ currentTime' = QueueTop(eventQueue).time
  /\ eventQueue' = QueuePop(eventQueue)
  /\ last' = [op |-> "pop", ev |-> QueueTop(eventQueue)]
  /\ UNCHANGED <<resources, availableResources, resourceUsageTime,
                 resourceWaitingTime, rawMaterialCount, finishedProducts,
                 finishedProductsPerType, productQueue,
                 runTime, pc, nextSeq, shiftCount, finishedLog,
                 stalledLog>>

NextQ ==
  \/ \E t \in 0..MaxTime : callScheduleEvent(t)
  \/ popEvent

SpecQ == Init /\ [][NextQ]_vars

\* ------------------------------------------------------------ properties
Capacity(r) == Get(resources, r)

RECURSIVE SumOver(_, _)
SumOver(m, keys) ==
  IF keys = {} THEN 0
  ELSE LET k == CHOOSE x \in keys : TRUE
       IN m[k] + SumOver(m, keys \ {k})
SumMap(m) == SumOver(m, DOMAIN m)

Pending(act) == {i \in 1..Len(eventQueue) : eventQueue[i].act = act}

\* C1: every resource's available count lies between 0 and its capacity in
\* every reachable state of a run.
C1_AvailableWithinCapacity ==
  \A r \in DOMAIN availableResources :
    0 <= availableResources[r] /\ availableResources[r] <= Capacity(r)

\* C2: the timestamps of the events the loop pops and executes never
\* decrease, so currentTime never decreases from one executed event to the
\* next.
C2_TimeNonDecreasing ==
  [][/\ currentTime' >= currentTime
     /\ (last.op = "pop" /\ last'.op = "pop" => last'.ev.time >= last.ev.time)]_vars

C2_Witness ==
  /\ last.op = "pop"
  /\ last.ev.act = "complete"
  /\ shiftCount >= 1
  /\ rawMaterialCount >= 2
  /\ currentTime > shiftLength

\* C4: in the scenario {machines:10, operators:5} with run bound 1000.0, a
\* run in which a unit arrived early enough has finishedProducts > 0 when it
\* ends.  (Every executed arrival is at most 3 * 8.0 time units after the
\* start, so the unit has far more than the 6.0 time units its four stages
\* take.)
C4_ScenarioFinishes ==
  ( /\ pc = "done"
    /\ resources = [machines |-> 10, operators |-> 5]
    /\ runTime = 4000
    /\ rawMaterialCount >= 1 )
  => finishedProducts > 0

\* C5: with machining capacity 0 no unit ever gets past stage 0:
\* finishedProducts stays 0, no setup or stage event is ever pending, and
\* the machining waiting time is arrivals x stage-0 duration.
C5_ZeroMachiningStalls ==
  Capacity("machining") = 0 =>
    /\ finishedProducts = 0
    /\ Pending("setup") = {} /\ Pending("complete") = {}
    /\ Get(resourceWaitingTime, "machining")
         = rawMaterialCount * processingTimes["ProductA"][1]

C5_Witness ==
  /\ "machining" \in DOMAIN resources
  /\ Capacity("machining") = 0
  /\ Capacity("assembly") > 0
  /\ shiftCount >= 1
  /\ rawMaterialCount >= 2
  /\ last.op = "pop" /\ last.ev.act = "arrival"

\* C6 (as stated): with run bound 24.0 exactly 3 shift changes are executed,
\* whatever the arrival times are.
C6_ExactlyThreeShifts ==
  (pc = "done" /\ runTime = 96) => shiftCount = 3

\* C6 (amended): the k-th executed shift change happens at k x shiftLength
\* and the pending one is due at the next multiple; with run bound 24.0 the
\* run ends after 2 or 3 shift changes, and after only 2 exactly when
\* another event stamped 24.0 was executed last, before the third.
C6_ShiftTimes ==
  /\ (last.op = "pop" /\ last.ev.act = "shift") =>
       last.ev.time = shiftCount * shiftLength
  /\ \A i \in Pending("shift") :
       eventQueue[i].time = (shiftCount + 1) * shiftLength
  /\ (pc = "done" /\ runTime = 96) =>
       /\ shiftCount \in {2, 3}
       /\ (shiftCount = 2 => last.ev.act # "shift" /\ last.ev.time = 96)
       /\ (shiftCount = 3 => last.ev.act = "shift" /\ last.ev.time = 96)

C6_Witness ==
  /\ pc = "done"
  /\ runTime = 96
  /\ shiftCount = 3
  /\ rawMaterialCount >= 2
  /\ last.ev.act = "shift"

\* C7: an event is popped and executed only while currentTime < runTime, so
\* every event executed before the last one has a timestamp below the bound.
C7_PopOnlyBeforeBound ==
  [][(pc = "running" /\ pc' = "running") =>
       /\ currentTime < runTime
       /\ (last.op = "pop" => last.ev.time < runTime)]_vars

C7_Witness ==
  /\ pc = "done"
  /\ last.op = "pop"
  /\ last.ev.time > runTime

\* C8: the per-type finished counters sum to finishedProducts, and a unit is
\* counted exactly when its stage index reaches the stage count of its type,
\* at most once.
C8_FinishedCounters ==
  /\ SumMap(finishedProductsPerType) = finishedProducts
  /\ Len(finishedLog) = finishedProducts
  /\ \A i \in 1..Len(finishedLog) :
       finishedLog[i].intermediateStage
         = Len(processingTimes[finishedLog[i].type])
  /\ \A i, j \in 1..Len(finishedLog) :
       finishedLog[i].id = finishedLog[j].id => i = j

C8_Witness ==
  /\ finishedProducts >= 2
  /\ finishedProductsPerType["ProductA"] >= 2

InQueue(seq) == \E i \in 1..Len(eventQueue) : eventQueue[i].seq = seq

\* C3: of two events scheduled with equal time the one scheduled first is
\* popped first: the event just popped was scheduled before every event of
\* the same time still in the queue.
C3_FifoTieBreak ==
  last.op = "pop" =>
    \A i \in 1..Len(eventQueue) :
      eventQueue[i].time = last.ev.time => last.ev.seq < eventQueue[i].seq

\* C9: scheduleEvent with time < currentTime inserts no event; with
\* time >= currentTime it inserts the event.
C9_NoSchedulingIntoPast ==
  last.op = "scheduleEvent" =>
    (InQueue(last.ev.seq) <=> last.ev.time >= currentTime)

\* C10: a release (stage completion or maintenance completion) of a resource
\* whose available count already equals its capacity leaves it at the
\* capacity; a release with available < capacity adds exactly one.
C10_ReleaseClamped ==
  [][(pc = "running" /\ pc' = "running" /\ eventQueue # << >>) =>
       LET ev == QueueTop(eventQueue)
           before == Get(availableResources, ev.stage)
           after == Get(availableResources', ev.stage)
       IN ev.act \in {"complete", "maintenance"} =>
            IF before < Capacity(ev.stage)
              THEN after = before + 1
              ELSE after <= Capacity(ev.stage)]_vars

\* the busy time one ProductA unit books on a resource: setup (stage 0 only)
\* plus processing duration of the stage of that name, 0 for other names
StageIndices == 0..(Len(processingTimes["ProductA"]) - 1)
UnitBusyTime(r) ==
  IF \E k \in StageIndices : getStageName(k) = r
    THEN LET k == CHOOSE k \in StageIndices : getStageName(k) = r
         IN (IF k = 0 THEN machineSetupTimes["ProductA"] ELSE 0)
              + processingTimes["ProductA"][k + 1]
    ELSE 0

\* C11 (as stated): at the end of a run with bound T every resource's
\* cumulative busy time is at most T x capacity.
C11_BusyWithinBoundTimesCapacity ==
  pc = "done" =>
    \A r \in DOMAIN resourceUsageTime :
      resourceUsageTime[r] <= runTime * Capacity(r)

\* C11 (amended): every resource's cumulative busy time is at most the
\* number of arrivals times the busy time one unit books on it, and a
\* resource of capacity 0 has busy time 0.
C11_BusyWithinArrivals ==
  \A r \in DOMAIN resourceUsageTime :
    /\ resourceUsageTime[r] <= rawMaterialCount * UnitBusyTime(r)
    /\ Capacity(r) = 0 => resourceUsageTime[r] = 0

C11_Witness ==
  /\ pc = "done"
  /\ \E r \in DOMAIN resourceUsageTime :
       /\ Capacity(r) > 0
       /\ resourceUsageTime[r] > runTime * Capacity(r)
       /\ resourceUsageTime[r] = rawMaterialCount * UnitBusyTime(r)

\* ---- helpers describing the loop iteration a step performs
IsIteration == pc = "running" /\ pc' = "running"
Seqs(q) == {q[i].seq : i \in 1..Len(q)}
\* the step attempts an acquisition: an arrival, or a stage completion that
\* leaves stages to do
AttemptsStage ==
  LET ev == QueueTop(eventQueue)
  IN \/ ev.act = "arrival"
     \/ /\ ev.act = "complete"
        /\ ev.product.intermediateStage + 1 < Len(processingTimes[ev.product.type])
AttemptIndex ==
  LET ev == QueueTop(eventQueue)
  IN IF ev.act = "arrival" THEN 0 ELSE ev.product.intermediateStage + 1
AttemptUnit ==
  LET ev == QueueTop(eventQueue)
  IN IF ev.act = "arrival" THEN rawMaterialCount + 1 ELSE ev.product.id
\* the events the step schedules besides those of the acquisition attempt
OwnSeqs ==
  IF QueueTop(eventQueue).act = "arrival" THEN {nextSeq} ELSE {}

Stalled(id) == \E i \in 1..Len(stalledLog) : stalledLog[i].id = id
Finished(id) == \E i \in 1..Len(finishedLog) : finishedLog[i].id = id
PendingOf(id) == {i \in 1..Len(eventQueue) : eventQueue[i].product.id = id}

\* a unit whose acquisition failed has no pending event and is not finished
StalledForGood ==
  \A i \in 1..Len(stalledLog) :
    /\ PendingOf(stalledLog[i].id) = {}
    /\ ~Finished(stalledLog[i].id)
    /\ \A j \in 1..Len(stalledLog) : stalledLog[j].id = stalledLog[i].id => i = j

\* C12: an acquisition attempt succeeds and takes exactly one unit of the
\* stage's resource iff available > 0; a failed attempt leaves available and
\* the queue alone and adds the processing duration to the waiting time, and
\* the unit never gets an event again and is never counted as finished.
C12_AcquireOrStall ==
  [][/\ (IsIteration /\ AttemptsStage) =>
          LET ev == QueueTop(eventQueue)
              stage == getStageName(AttemptIndex)
              proc == processingTimes[ev.product.type][AttemptIndex + 1]
              before == Get(availableResources, stage)
              rest == Seqs(eventQueue) \ {ev.seq}
              new == Seqs(eventQueue') \ (rest \cup OwnSeqs)
          IN IF before > 0
               THEN /\ Get(availableResources', stage) = before - 1
                    /\ Cardinality(new) = 1
                    /\ \A i \in 1..Len(eventQueue') :
                         eventQueue'[i].seq \in new =>
                           /\ eventQueue'[i].product.id = AttemptUnit
                           /\ eventQueue'[i].product.intermediateStage = AttemptIndex
                    /\ Get(resourceWaitingTime', stage)
                         = Get(resourceWaitingTime, stage)
                    /\ stalledLog' = stalledLog
               ELSE /\ Get(availableResources', stage) = before
                    /\ new = {}
                    /\ rest \subseteq Seqs(eventQueue')
                    /\ Get(resourceWaitingTime', stage)
                         = Get(resourceWaitingTime, stage) + proc
                    /\ Get(resourceUsageTime', stage)
                         = Get(resourceUsageTime, stage)
                    /\ Len(stalledLog') = Len(stalledLog) + 1
                    /\ stalledLog'[Len(stalledLog')].id = AttemptUnit
     /\ StalledForGood']_vars

\* a unit stalled at a stage whose resource a later shift change or release
\* freed again, and the run went on
C12_Witness ==
  /\ \E i \in 1..Len(stalledLog) :
       Get(availableResources,
           getStageName(stalledLog[i].intermediateStage)) > 0
  /\ \E i \in 1..Len(stalledLog) : stalledLog[i].intermediateStage > 0
  /\ shiftCount >= 1
  /\ finishedProducts >= 1
  /\ pc = "done"

\* the events of the queue after the step that the step itself scheduled
NewEvents ==
  {i \in 1..Len(eventQueue') : eventQueue'[i].seq >= nextSeq}
SetupOfStage(type, index) ==
  IF index = 0 THEN machineSetupTimes[type] ELSE 0

\* C13: a successful acquisition at time t schedules the unit's setup event
\* at t + setup duration at stage 0 and at t at later stages, and books the
\* same delay as busy time in the acquiring action; the setup event then
\* schedules the stage completion one processing duration later, that is at
\* t + setup + processing at stage 0 and t + processing at stages 1..n-1.
C13_SetupOnlyAtStageZero ==
  [][/\ (/\ IsIteration
         /\ AttemptsStage
         /\ Get(availableResources, getStageName(AttemptIndex)) > 0) =>
          LET ev == QueueTop(eventQueue)
              stage == getStageName(AttemptIndex)
              delay == SetupOfStage(ev.product.type, AttemptIndex)
          IN /\ \E i \in NewEvents :
                  /\ eventQueue'[i].act = "setup"
                  /\ eventQueue'[i].product.id = AttemptUnit
                  /\ eventQueue'[i].time = ev.time + delay
                  /\ eventQueue'[i].stage = stage
                  /\ eventQueue'[i].processTime
                       = processingTimes[ev.product.type][AttemptIndex + 1]
             /\ Get(resourceUsageTime', stage)
                  = Get(resourceUsageTime, stage) + delay
             /\ (delay > 0 <=> AttemptIndex = 0)
     /\ (IsIteration /\ QueueTop(eventQueue).act = "setup") =>
          LET ev == QueueTop(eventQueue)
          IN /\ currentTime' = ev.time
             /\ Cardinality(NewEvents) = 1
             /\ \A i \in NewEvents :
                  /\ eventQueue'[i].act = "complete"
                  /\ eventQueue'[i].product = ev.product
                  /\ eventQueue'[i].time
                       = ev.time
                         + processingTimes[ev.product.type]
                                          [ev.product.intermediateStage + 1]]_vars

\* completions of a stage 0 and of a later stage are both pending
C13_Witness ==
  /\ \E i \in Pending("complete") : eventQueue[i].product.intermediateStage = 0
  /\ \E i \in Pending("complete") : eventQueue[i].product.intermediateStage > 0
  /\ Get(resourceUsageTime, "assembly") > 0

\* C14: a successful acquisition for a stage with index > 0 schedules the
\* stage-completion event and books the processing duration as busy time in
\* the acquiring action itself, with no queued event in between.
C14_LaterStagesStartImmediately ==
  [][(/\ IsIteration
      /\ AttemptsStage
      /\ AttemptIndex > 0
      /\ Get(availableResources, getStageName(AttemptIndex)) > 0) =>
       LET ev == QueueTop(eventQueue)
           stage == getStageName(AttemptIndex)
           proc == processingTimes[ev.product.type][AttemptIndex + 1]
       IN /\ \E i \in NewEvents :
               /\ eventQueue'[i].act = "complete"
               /\ eventQueue'[i].product.id = AttemptUnit
               /\ eventQueue'[i].time = ev.time + proc
          /\ Get(resourceUsageTime', stage)
               = Get(resourceUsageTime, stage) + proc]_vars

MapKeys ==
  DOMAIN availableResources \cup DOMAIN resourceUsageTime
    \cup DOMAIN resourceWaitingTime

\* C15: a stage-completion event releases the resource of the completed
\* stage (available + 1), advances the unit by exactly one stage, and then
\* either attempts the next stage or counts the unit as finished; pending
\* events only name stages of the plan, and "unknown" is never a resource.
C15_StagesInPlanOrder ==
  [][/\ (IsIteration /\ QueueTop(eventQueue).act = "complete") =>
          LET ev == QueueTop(eventQueue)
              stage == getStageName(ev.product.intermediateStage)
              nextIndex == ev.product.intermediateStage + 1
          IN /\ ev.stage = stage
             /\ Get(availableResources', stage)
                  = Get(availableResources, stage) + 1
             /\ IF nextIndex < Len(processingTimes[ev.product.type])
                  THEN /\ finishedProducts' = finishedProducts
                       /\ \/ \E i \in NewEvents :
                               /\ eventQueue'[i].act = "setup"
                               /\ eventQueue'[i].product.id = ev.product.id
                               /\ eventQueue'[i].product.intermediateStage
                                    = nextIndex
                          \/ /\ NewEvents = {}
                             /\ Len(stalledLog') = Len(stalledLog) + 1
                             /\ stalledLog'[Len(stalledLog')]
                                  = [ev.product EXCEPT
                                       !.intermediateStage = nextIndex]
                  ELSE /\ finishedProducts' = finishedProducts + 1
                       /\ NewEvents = {}
                       /\ stalledLog' = stalledLog
                       /\ finishedLog'
                            = Append(finishedLog,
                                     [ev.product EXCEPT
                                        !.intermediateStage = nextIndex])
     /\ (IsIteration /\ QueueTop(eventQueue).act = "setup") =>
          \A i \in NewEvents :
            eventQueue'[i].product = QueueTop(eventQueue).product
     /\ "unknown" \notin MapKeys'
     /\ \A i \in 1..Len(eventQueue') :
          eventQueue'[i].act \in {"setup", "complete"} =>
            /\ eventQueue'[i].product.intermediateStage
                 < Len(processingTimes[eventQueue'[i].product.type])
            /\ eventQueue'[i].stage
                 = getStageName(eventQueue'[i].product.intermediateStage)]_vars

\* a unit went through all four stages and another stalled on the way
C15_Witness ==
  /\ finishedProducts >= 1
  /\ last.op = "pop" /\ last.ev.act = "complete"
  /\ last.ev.product.intermediateStage = 3
  /\ \E i \in 1..Len(stalledLog) : stalledLog[i].intermediateStage > 0
  /\ StageNames \subseteq DOMAIN resourceUsageTime

EventSet(q) == {q[i] : i \in 1..Len(q)}

\* C16: right after a shift change available equals capacity for every
\* resource; the statistics, the units and the pending events are as
\* before, and exactly one event is added: the next shift change, one
\* shiftLength later.
C16_ShiftChangeFrame ==
  [][(IsIteration /\ QueueTop(eventQueue).act = "shift") =>
       LET ev == QueueTop(eventQueue)
       IN /\ availableResources' = resources
          /\ \A r \in DOMAIN availableResources' :
               availableResources'[r] = Capacity(r)
          /\ resources' = resources
          /\ resourceUsageTime' = resourceUsageTime
          /\ resourceWaitingTime' = resourceWaitingTime
          /\ finishedProducts' = finishedProducts
          /\ finishedProductsPerType' = finishedProductsPerType
          /\ rawMaterialCount' = rawMaterialCount
          /\ productQueue' = productQueue
          /\ stalledLog' = stalledLog
          /\ EventSet(eventQueue')
               = (EventSet(eventQueue) \ {ev})
                   \cup {MkEvent(ev.time + shiftLength, "shift_change", "shift",
                                 NoProduct, 0, "none", nextSeq)}
          /\ Len(eventQueue') = Len(eventQueue)]_vars

\* a shift change that found a unit mid-stage and a count off its capacity
C16_Witness ==
  /\ last.op = "pop" /\ last.ev.act = "shift"
  /\ Pending("complete") # {}
  /\ \E r \in DOMAIN resources : resources[r] > 0
  /\ availableResources = resources
  /\ Get(resourceUsageTime, "machining") > 0
  /\ stalledLog # << >>

\* C17: a breakdown takes one unit of the resource out of service
\* (available - 1) and the maintenance event, scheduled 5.0 later, puts it
\* back, so that available never exceeds the capacity.
C17_BreakdownTakesResourceOut ==
  [][/\ (/\ pc \in {"constructed", "configured"}
         /\ \E i \in NewEvents : eventQueue'[i].act = "maintenance") =>
          \A i \in NewEvents :
            /\ eventQueue'[i].time = currentTime + BreakdownDelay
            /\ Get(availableResources', eventQueue'[i].stage)
                 = Get(availableResources, eventQueue'[i].stage) - 1
     /\ (IsIteration /\ QueueTop(eventQueue).act = "maintenance") =>
          LET r == QueueTop(eventQueue).stage
          IN /\ Get(availableResources', r) = Get(availableResources, r) + 1
             /\ Get(availableResources', r) <= Capacity(r)]_vars

\* C18: from the seeding on, between event actions the queue holds exactly
\* one pending arrival and exactly one pending shift change, so it is never
\* empty and the loop only exits because currentTime >= runTime.
C18_GeneratorsAlwaysPending ==
  pc \in {"running", "done"} =>
    /\ Cardinality(Pending("arrival")) = 1
    /\ Cardinality(Pending("shift")) = 1
    /\ eventQueue # << >>
    /\ (pc = "done" => currentTime >= runTime)

C18_Witness ==
  /\ pc = "done"
  /\ rawMaterialCount >= 2
  /\ shiftCount >= 2
  /\ Len(eventQueue) > 2

Units == 1..rawMaterialCount
UnitEvents == Pending("setup") \cup Pending("complete")
InFlight == {id \in Units : ~Stalled(id) /\ ~Finished(id)}

\* C19: every unit that arrived is finished, stalled or in flight, exactly
\* one of the three; an in-flight unit has exactly one pending event and
\* every pending setup or stage-completion event belongs to one in-flight
\* unit, so rawMaterialCount = finishedProducts + stalled + in flight.
C19_UnitConservation ==
  /\ rawMaterialCount
       = finishedProducts + Len(stalledLog) + Cardinality(InFlight)
  /\ Len(productQueue) = rawMaterialCount
  /\ \A id \in Units : ~(Stalled(id) /\ Finished(id))
  /\ \A i, j \in 1..Len(stalledLog) :
       stalledLog[i].id = stalledLog[j].id => i = j
  /\ \A i \in 1..Len(stalledLog) : stalledLog[i].id \in Units
  /\ \A i \in 1..Len(finishedLog) : finishedLog[i].id \in Units
  /\ Len(finishedLog) = finishedProducts
  /\ \A id \in InFlight :
       /\ Cardinality(PendingOf(id)) = 1
       /\ PendingOf(id) \subseteq UnitEvents
  /\ \A i \in UnitEvents : eventQueue[i].product.id \in InFlight
  /\ Cardinality(UnitEvents) = Cardinality(InFlight)

\* finished, stalled and in-flight units at the same time
C19_Witness ==
  /\ finishedProducts >= 1
  /\ stalledLog # << >>
  /\ InFlight # {}
  /\ shiftCount >= 1

\* C20: every run terminates: the loop is left and the statistics are
\* logged, whatever zero-delay setup events the stages queue.
C20_RunTerminates == <>(pc = "done")

\* a finished run in which zero-delay setup events of later stages ran
C20_Witness ==
  /\ pc = "done"
  /\ currentTime >= runTime
  /\ finishedProducts >= 1
  /\ \E i \in 1..Len(stalledLog) : stalledLog[i].intermediateStage > 0
====
